---------------------------- MODULE Spec2Model ----------------------------
(***************************************************************************)
(* CustomPlayer of game_agent.py: depth-limited minimax, alpha-beta        *)
(* pruning and the iterative-deepening driver get_move, polling a          *)
(* remaining-time function at every node.                                  *)
(*                                                                         *)
(* The isolation.Board is an external collaborator.  A position is a       *)
(* record [active, score, kids]: the player to move, the value the         *)
(* evaluation function gives the position for the agent, and the           *)
(* positions reached by the legal moves, in the board's enumeration order. *)
(***************************************************************************)
EXTENDS Integers, Sequences, FiniteSets, TLC

\* ------------------------------------------------------------------ bounds
MaxNodes == 5
MaxRootNodes == 4
MaxScore == 1
MaxDepth == 3
MaxSearchDepth == 3
MaxSlack == 5
MaxStep == 2

\* --------------------------------------------------------------- constants
TIMER_THRESHOLD == 10
DEPTH_LIMIT == 25
WINDOW == 3

\* ------------------------------------------------------------------ values
\* float("inf") and float("-inf"): above and below every finite score.
PosInf == MaxScore + 1
NegInf == -PosInf
FiniteScores == 0..MaxScore
Scores == {NegInf, PosInf} \cup FiniteScores

\* Python's None, as a score and as a move; the (-1, -1) of a dead end.
NoneScore == NegInf - 1
NoneMove == <<>>
NO_MOVE == <<-1, -1>>

Agent == "self"
Opponent == "opponent"
get_opponent(player) == IF player = Agent THEN Opponent ELSE Agent

\* ------------------------------------------------------------- the board
\* Every game tree of n positions whose root has player a to move, the
\* evaluation function taking its values in S.
RECURSIVE Tree(_, _, _), Forest(_, _, _)
Tree(n, a, S) ==
    {[active |-> a, score |-> s, kids |-> f] :
        s \in S, f \in Forest(n - 1, get_opponent(a), S)}
Forest(n, a, S) ==
    IF n = 0 THEN {<<>>}
    ELSE UNION {{<<t>> \o f : t \in Tree(k, a, S), f \in Forest(n - k, a, S)} : k \in 1..n}

Boards(a) == UNION {Tree(n, a, Scores) : n \in 1..MaxNodes}

\* Board.get_legal_moves: the (row, col) cells the active player can move to.
get_legal_moves(game) == [i \in 1..Len(game.kids) |-> <<i - 1, 0>>]
\* Board.forecast_move: a new board, the original untouched.
forecast_move(game, m) == game.kids[m[1] + 1]
\* The evaluation function: the position's value for player (zero-sum).
score_fn(game, player) == IF player = Agent THEN game.score ELSE -game.score


\* ------------------------------------------------------------------- state
VARIABLES
    game,              \* the board get_move / the search is called on
    method,            \* self.method: "minimax" or "alphabeta"
    iterative,         \* self.iterative
    quiessant_search,  \* self.quiessant_search
    search_depth,      \* self.search_depth
    t0,                \* what the first poll of time_left() returns
    step,              \* by how much every poll of time_left() lowers the next one
    polls,             \* the number of polls of time_left() made so far
    pc,                \* where get_move (or the search harness) stands
    depth,             \* the loop variable of get_move; the depth of a direct search
    score,             \* get_move's local score
    move,              \* get_move's local move
    results,           \* get_move's deque(maxlen=3) of (score, move)
    seed,              \* history: the move random.choice picked
    completed,         \* history: the (depth, score, move) of every completed search
    aborted,           \* history: the unwound state of the search Timeout ended, if any
    maximizing,        \* the maximizing_player argument of a direct search
    bounds,            \* the (alpha, beta) arguments of a direct alphabeta call
    mm,                \* what the direct minimax call returned
    ab                 \* what the direct alphabeta call returned

vars == <<game, method, iterative, quiessant_search, search_depth, t0, step, polls,
          pc, depth, score, move, results, seed, completed, aborted,
          maximizing, bounds, mm, ab>>

\* ------------------------------------------------------------------ search
\* self.time_left() at the poll that follows n earlier ones.
time_left(n) == t0 - n * step

\* "self.time_left() < self.TIMER_THRESHOLD", polled after n earlier polls.
ExpiredAtZero(n) == time_left(n) < 0
Expired(n) == time_left(n) < TIMER_THRESHOLD

\* "self.score(game, self)": the evaluation, for the agent that runs the search.
evaluate_for_active(g) == score_fn(g, g.active)
evaluate(g) == score_fn(g, Agent)

\* What a call hands back: a (score, move) pair, or Timeout unwinding the stack.
\* polls counts the polls made up to then; calls lists the recursive alphabeta
\* calls made (their arguments next to the caller's, for the bounds invariant);
\* on Timeout, score and move are the locals of the outermost frame unwound.
Returned(s, m, n, c) == [timeout |-> FALSE, score |-> s, move |-> m, polls |-> n, calls |-> c]
Timeout(s, m, n, c) == [timeout |-> TRUE, score |-> s, move |-> m, polls |-> n, calls |-> c]
NoResult == Returned(NoneScore, NoneMove, 0, {})

\* "score is None or newscore > score" (maximizing), "... newscore < score" (minimizing)
ImprovesLast(maximizing_player, s, newscore) ==
    \/ s = NoneScore
    \/ IF maximizing_player THEN newscore >= s ELSE newscore =< s
Improves(maximizing_player, s, newscore) ==
    \/ s = NoneScore
    \/ IF maximizing_player THEN newscore > s ELSE newscore < s

RECURSIVE minimax(_, _, _, _), minimax_loop(_, _, _, _, _, _, _)
\* The for loop of a recursive case, from the i-th legal move on.
minimax_loop(g, d, maximizing_player, i, s, mv, n) ==
    LET legal_moves == get_legal_moves(g) IN
    IF i > Len(legal_moves) THEN Returned(s, mv, n, {})
    ELSE
        LET m == legal_moves[i]
            r == minimax(forecast_move(g, m), d - 1, ~maximizing_player, n)
        IN  IF r.timeout THEN Timeout(s, mv, r.polls, {})
            ELSE IF Improves(maximizing_player, s, r.score)
                 THEN minimax_loop(g, d, maximizing_player, i + 1, r.score, m, r.polls)
                 ELSE minimax_loop(g, d, maximizing_player, i + 1, s, mv, r.polls)

minimax(g, d, maximizing_player, n) ==
    IF Expired(n) THEN Timeout(NoneScore, NoneMove, n + 1, {})
    ELSE IF Len(get_legal_moves(g)) > 0
         THEN IF d > 0
              THEN minimax_loop(g, d, maximizing_player, 1, NoneScore, NoneMove, n + 1)
              ELSE Returned(evaluate(g), NoneMove, n + 1, {})
         ELSE Returned(evaluate(g), NO_MOVE, n + 1, {})

\* The bounds a recursive alphabeta call is given: the local floor and ceiling.
ChildBoundsOriginal(alpha, beta, floor, ceiling) == <<alpha, beta>>
ChildBounds(alpha, beta, floor, ceiling) == <<floor, ceiling>>

\* "if score > floor: floor = score" and "if score < ceiling: ceiling = score"
RaiseFloor(floor, s) == IF s > floor THEN s ELSE floor
LowerCeiling(ceiling, s) == IF s < ceiling THEN s ELSE ceiling

\* "if score >= ceiling: break" (maximizing), "if score <= floor: break" (minimizing)
CutoffAtFloor(maximizing_player, s, floor, ceiling) ==
    IF maximizing_player THEN s >= floor ELSE s =< ceiling
Cutoff(maximizing_player, s, floor, ceiling) ==
    IF maximizing_player THEN s >= ceiling ELSE s =< floor

RECURSIVE alphabeta(_, _, _, _, _, _), alphabeta_loop(_, _, _, _, _, _, _, _, _, _, _, _)
alphabeta_loop(g, d, alpha, beta, floor, ceiling, maximizing_player, i, s, mv, n, c) ==
    LET legal_moves == get_legal_moves(g) IN
    IF i > Len(legal_moves) THEN Returned(s, mv, n, c)
    ELSE
        LET m == legal_moves[i]
            b == ChildBounds(alpha, beta, floor, ceiling)
            call == [alpha |-> b[1], beta |-> b[2], caller_alpha |-> alpha,
                     caller_beta |-> beta, caller_score |-> s,
                     caller_maximizing |-> maximizing_player]
            r == alphabeta(forecast_move(g, m), d - 1, b[1], b[2], ~maximizing_player, n)
            c2 == c \cup {call} \cup r.calls
        IN  IF r.timeout THEN Timeout(s, mv, r.polls, c2)
            ELSE
                LET better == Improves(maximizing_player, s, r.score)
                    s2 == IF better THEN r.score ELSE s
                    mv2 == IF better THEN m ELSE mv
                    floor2 == IF maximizing_player THEN RaiseFloor(floor, s2) ELSE floor
                    ceiling2 == IF maximizing_player THEN ceiling ELSE LowerCeiling(ceiling, s2)
                IN  IF Cutoff(maximizing_player, s2, floor2, ceiling2)
                    THEN Returned(s2, mv2, r.polls, c2)
                    ELSE alphabeta_loop(g, d, alpha, beta, floor2, ceiling2,
                                        maximizing_player, i + 1, s2, mv2, r.polls, c2)

alphabeta(g, d, alpha, beta, maximizing_player, n) ==
    IF Expired(n) THEN Timeout(NoneScore, NoneMove, n + 1, {})
    ELSE IF Len(get_legal_moves(g)) > 0
         THEN IF d > 0
              THEN alphabeta_loop(g, d, alpha, beta, alpha, beta, maximizing_player,
                                  1, NoneScore, NoneMove, n + 1, {})
              ELSE Returned(evaluate(g), NoneMove, n + 1, {})
         ELSE Returned(evaluate(g), NO_MOVE, n + 1, {})

\* dosearch: the configured method, with its default arguments.
dosearch(g, d, n) ==
    IF method = "minimax" THEN minimax(g, d, TRUE, n)
    ELSE alphabeta(g, d, NegInf, PosInf, TRUE, n)


\* ---------------------------------------------------------------- get_move
\* deque(maxlen=3).append
deque_append(q, x) == IF Len(q) < WINDOW THEN Append(q, x) ELSE Append(Tail(q), x)

\* "len(results) >= 3 and all(x[1] == move for x in results)"
ConvergedOnScore(q, mv) == Len(q) >= WINDOW /\ \A k \in 1..Len(q) : q[k][1] = q[Len(q)][1]
Converged(q, mv) == Len(q) >= WINDOW /\ \A k \in 1..Len(q) : q[k][2] = mv

\* "score == float('-inf') or score == float('inf')"
ForcedOutcome(s) == s = NegInf \/ s = PosInf

\* The break conditions of the loop body that come before the poll of the clock.
BreaksNoElif(q, s, mv) ==
    \/ quiessant_search /\ Converged(q, mv)
    \/ ForcedOutcome(s)
Breaks(q, s, mv) ==
    IF quiessant_search THEN Converged(q, mv) ELSE ForcedOutcome(s)

\* What get_move holds as (score, move) once a search has ended: the pair it
\* returned, or, with Timeout raised inside it, the pair held before.
KeepPartial(s, mv, r) == <<r.score, r.move>>
AfterSearch(s, mv, r) == IF r.timeout THEN <<s, mv>> ELSE <<r.score, r.move>>

\* "random.choice(legal_moves) if len(legal_moves) > 0 else None": the moves
\* it can yield.
NoFallback(legal_moves) == {NoneMove}
random_choice(legal_moves) ==
    IF Len(legal_moves) > 0
    THEN {legal_moves[i] : i \in 1..Len(legal_moves)}
    ELSE {NoneMove}

\* Lines 96-105: the legal_moves handed in are the board's own (the assert
\* of line 99 holds), and a fallback move is picked at random among them
\* (None when there is none).
Seed ==
    /\ pc = "start"
    /\ \E m \in random_choice(get_legal_moves(game)) :
          /\ move' = m
          /\ seed' = m
    /\ score' = NoneScore
    /\ results' = <<>>
    /\ depth' = search_depth
    /\ pc' = IF iterative THEN "iterate" ELSE "fixed"
    /\ UNCHANGED <<game, method, iterative, quiessant_search, search_depth, t0, step,
                   polls, completed, aborted, maximizing, bounds, mm, ab>>

\* Lines 110-119: one pass of "for depth in range(self.search_depth, 25)".
Iterate ==
    /\ pc = "iterate"
    /\ depth < DEPTH_LIMIT
    /\ LET r == dosearch(game, depth, polls)
           sm == AfterSearch(score, move, r)
           q == deque_append(results, sm)
       IN  /\ score' = sm[1]
           /\ move' = sm[2]
           /\ IF r.timeout
              THEN /\ aborted' = r
                   /\ polls' = r.polls
                   /\ pc' = "return"
                   /\ UNCHANGED <<results, completed, depth>>
              ELSE /\ results' = q
                   /\ completed' = Append(completed, <<depth, sm[1], sm[2]>>)
                   /\ UNCHANGED aborted
                   /\ IF Breaks(q, sm[1], sm[2])
                      THEN /\ pc' = "assert"
                           /\ polls' = r.polls
                           /\ UNCHANGED depth
                      ELSE /\ polls' = r.polls + 1
                           /\ IF Expired(r.polls)
                              THEN pc' = "assert" /\ UNCHANGED depth
                              ELSE pc' = "iterate" /\ depth' = depth + 1
    /\ UNCHANGED <<game, method, iterative, quiessant_search, search_depth, t0, step,
                   seed, maximizing, bounds, mm, ab>>

\* The range of the loop is used up (or was empty).
EndOfRange ==
    /\ pc = "iterate"
    /\ depth >= DEPTH_LIMIT
    /\ pc' = "assert"
    /\ UNCHANGED <<game, method, iterative, quiessant_search, search_depth, t0, step,
                   polls, depth, score, move, results, seed, completed, aborted,
                   maximizing, bounds, mm, ab>>

\* Lines 120-122: the fixed-depth search.
Fixed ==
    /\ pc = "fixed"
    /\ LET r == dosearch(game, search_depth, polls)
           sm == AfterSearch(score, move, r)
       IN  /\ score' = sm[1]
           /\ move' = sm[2]
           /\ polls' = r.polls
           /\ IF r.timeout
              THEN /\ aborted' = r
                   /\ pc' = "return"
                   /\ UNCHANGED completed
              ELSE /\ completed' = Append(completed, <<search_depth, sm[1], sm[2]>>)
                   /\ pc' = IF sm[1] # NoneScore THEN "assert" ELSE "AssertionError"
                   /\ UNCHANGED aborted
    /\ UNCHANGED <<game, method, iterative, quiessant_search, search_depth, t0, step,
                   depth, results, seed, maximizing, bounds, mm, ab>>

\* Lines 124-126: with legal moves, the move is one of them, or the assert fails.
CheckMove ==
    /\ pc = "assert"
    /\ LET options == get_legal_moves(game)
       IN  pc' = IF Len(options) > 0 /\ ~(\E i \in 1..Len(options) : options[i] = move)
                 THEN "AssertionError"
                 ELSE "return"
    /\ UNCHANGED <<game, method, iterative, quiessant_search, search_depth, t0, step,
                   polls, depth, score, move, results, seed, completed, aborted,
                   maximizing, bounds, mm, ab>>

\* Line 133: "return move".
Return ==
    /\ pc = "return"
    /\ pc' = "done"
    /\ UNCHANGED <<game, method, iterative, quiessant_search, search_depth, t0, step,
                   polls, depth, score, move, results, seed, completed, aborted,
                   maximizing, bounds, mm, ab>>

\* The clocks tried: one that never runs down, and those that lose Step per poll
\* from just under the threshold up to MaxSlack over it.
Clocks ==
    {[t0 |-> TIMER_THRESHOLD, step |-> 0]} \cup
    {[t0 |-> t, step |-> d] :
        t \in (TIMER_THRESHOLD - 1)..(TIMER_THRESHOLD + MaxSlack), d \in 1..MaxStep}

\* The boards get_move is called on: the agent to move, evaluated by null_score.
NullScores == {NegInf, 0, PosInf}
RootBoards == UNION {Tree(n, Agent, NullScores) : n \in 1..MaxRootNodes}

Init ==
    /\ game \in RootBoards
    /\ method \in {"minimax", "alphabeta"}
    /\ iterative \in BOOLEAN
    /\ quiessant_search \in (IF iterative THEN BOOLEAN ELSE {FALSE})
    /\ search_depth \in 0..MaxSearchDepth
    /\ \E c \in Clocks : t0 = c.t0 /\ step = c.step
    /\ polls = 0
    /\ pc = "start"
    /\ depth = 0
    /\ score = NoneScore
    /\ move = NoneMove
    /\ results = <<>>
    /\ seed = NoneMove
    /\ completed = <<>>
    /\ aborted = NoResult
    /\ maximizing = TRUE
    /\ bounds = <<NegInf, PosInf>>
    /\ mm = NoResult
    /\ ab = NoResult

Next == Seed \/ Iterate \/ EndOfRange \/ Fixed \/ CheckMove \/ Return

Spec == Init /\ [][Next]_vars

\* ------------------------------------------------- the search, called directly
CallMinimax ==
    /\ pc = "minimax"
    /\ mm' = minimax(game, depth, maximizing, polls)
    /\ pc' = "alphabeta"
    /\ UNCHANGED <<game, method, iterative, quiessant_search, search_depth, t0, step,
                   polls, depth, score, move, results, seed, completed, aborted,
                   maximizing, bounds, ab>>

CallAlphabeta ==
    /\ pc = "alphabeta"
    /\ \E alpha \in Scores, beta \in Scores :
          /\ alpha =< beta
          /\ bounds' = <<alpha, beta>>
          /\ ab' = alphabeta(game, depth, alpha, beta, maximizing, polls)
    /\ pc' = "searched"
    /\ UNCHANGED <<game, method, iterative, quiessant_search, search_depth, t0, step,
                   polls, depth, score, move, results, seed, completed, aborted,
                   maximizing, mm>>

InitSearch ==
    /\ maximizing \in BOOLEAN
    /\ game \in Boards(IF maximizing THEN Agent ELSE Opponent)
    /\ depth \in 0..MaxDepth
    /\ method = "minimax"
    /\ iterative = FALSE
    /\ quiessant_search = FALSE
    /\ search_depth = depth
    /\ t0 = TIMER_THRESHOLD
    /\ step = 0
    /\ polls = 0
    /\ pc = "minimax"
    /\ score = NoneScore
    /\ move = NoneMove
    /\ results = <<>>
    /\ seed = NoneMove
    /\ completed = <<>>
    /\ aborted = NoResult
    /\ bounds = <<NegInf, PosInf>>
    /\ mm = NoResult
    /\ ab = NoResult

NextSearch == CallMinimax \/ CallAlphabeta

SpecSearch == InitSearch /\ [][NextSearch]_vars


\* ------------------------------------------------------------- properties
LegalMoves(g) == {get_legal_moves(g)[i] : i \in 1..Len(get_legal_moves(g))}
Terminated == pc \in {"done", "AssertionError"}
\* The value the latest poll of time_left() returned (t0 before any poll).
LastPolled == IF polls = 0 THEN t0 ELSE time_left(polls - 1)
\* The move of the last search that ran to completion.
LastCompletedMove == completed[Len(completed)][3]
LastCompletedScore == completed[Len(completed)][2]

\* C1: with a legal move at the root and search_depth >= 1, get_move returns,
\* and the move it returns is one of the root's legal moves, whatever the
\* method, the mode and the poll at which Timeout is raised.
MoveLegality ==
    (Terminated /\ LegalMoves(game) # {} /\ search_depth >= 1)
        => (pc = "done" /\ move \in LegalMoves(game))

\* A Timeout before any depth has completed, with a legal move to return.
MoveLegalityWitness ==
    /\ pc = "done"
    /\ Cardinality(LegalMoves(game)) >= 2
    /\ search_depth >= 1
    /\ iterative
    /\ aborted.timeout
    /\ aborted.polls >= 2
    /\ completed = <<>>
    /\ move \in LegalMoves(game)

\* C2: once Timeout is raised inside a search, get_move polls and searches no
\* more, goes on to return (no exception reaches its caller), and holds the move
\* of the last depth that completed, or the pre-seeded move if none did.
TimeoutKeepsCommittedMove ==
    aborted.timeout =>
        /\ pc \in {"return", "done"}
        /\ polls = aborted.polls
        /\ move = (IF completed = <<>> THEN seed ELSE LastCompletedMove)

\* A depth completed, the next one was aborted with another move as its best
\* so far, and the completed depth's move was returned.
TimeoutKeepsCommittedMoveWitness ==
    /\ pc = "done"
    /\ aborted.timeout
    /\ completed # <<>>
    /\ aborted.move # NoneMove
    /\ aborted.move # move
    /\ move = LastCompletedMove

\* C3: get_move returns (-1, -1) if and only if the root has no legal moves.
NoMoveSentinelIffNoLegalMoves ==
    pc = "done" => (move = NO_MOVE <=> LegalMoves(game) = {})

\* C4 as stated: with a clock that loses a fixed positive step per poll and
\* starts at or over the margin, the remaining time when get_move returns has
\* not dropped below TIMER_THRESHOLD.
ReturnsAboveThreshold ==
    (pc = "done" /\ step > 0 /\ t0 >= TIMER_THRESHOLD) => LastPolled >= TIMER_THRESHOLD

\* C4 as amended: with a clock that loses a fixed positive step per poll, only
\* the last poll get_move makes can return less than TIMER_THRESHOLD: no poll
\* follows one that did, so that a clock that started at or over the margin
\* stands at TIMER_THRESHOLD - step or more when get_move returns.
NoPollAfterExpiry ==
    step > 0 =>
        /\ \A k \in 0..(polls - 2) : time_left(k) >= TIMER_THRESHOLD
        /\ (Terminated /\ t0 >= TIMER_THRESHOLD) => LastPolled >= TIMER_THRESHOLD - step

\* get_move returned on a poll under the margin, after polls over it.
NoPollAfterExpiryWitness ==
    /\ pc = "done"
    /\ step > 1
    /\ polls >= 3
    /\ LastPolled < TIMER_THRESHOLD
    /\ LastPolled >= TIMER_THRESHOLD - step


\* The k-th completed depth and the two before it returned the same move.
AgreeAt(k) ==
    /\ k >= 3
    /\ completed[k][3] = completed[k - 1][3]
    /\ completed[k][3] = completed[k - 2][3]
\* The loop of get_move is over.
LoopLeft == pc \in {"assert", "return", "done", "AssertionError"}
\* The loop was left by a break that is neither the deadline margin's nor a
\* Timeout, and before its range was used up.
LeftByBreak ==
    /\ LoopLeft
    /\ ~aborted.timeout
    /\ LastPolled >= TIMER_THRESHOLD
    /\ depth < DEPTH_LIMIT

\* C6: in iterative mode with convergence stopping, no depth is searched after
\* a completed depth at which the last three completed depths returned the same
\* move (moves compared, not scores), and the loop is never left for
\* convergence unless the last three completed depths returned the same move.
ConvergenceStop ==
    (iterative /\ quiessant_search) =>
        /\ \A k \in 1..(Len(completed) - 1) : ~AgreeAt(k)
        /\ AgreeAt(Len(completed)) => LoopLeft
        /\ LeftByBreak => AgreeAt(Len(completed))

\* Deepening went on past three completed depths, until the window of the last
\* three held one move, with scores that differ.
ConvergenceStopWitness ==
    /\ iterative
    /\ quiessant_search
    /\ pc = "done"
    /\ LeftByBreak
    /\ Len(completed) >= 4
    /\ AgreeAt(Len(completed))
    /\ completed[Len(completed)][2] # completed[Len(completed) - 2][2]

\* C7: in iterative mode without convergence stopping, no depth is searched
\* after a completed depth whose score is +inf or -inf, and its move is the one
\* held; with convergence stopping, a depth that returned +inf or -inf does not
\* end the loop: when it is the last completed depth and the window does not
\* agree, the loop ended on the deadline margin, a Timeout or its range.
ForcedOutcomeStop ==
    /\ (iterative /\ ~quiessant_search) =>
          /\ \A k \in 1..(Len(completed) - 1) : ~ForcedOutcome(completed[k][2])
          /\ (completed # <<>> /\ ForcedOutcome(LastCompletedScore)) =>
                (LoopLeft /\ move = LastCompletedMove /\ ~aborted.timeout)
    /\ (iterative /\ quiessant_search /\ LoopLeft /\ completed # <<>>
           /\ ForcedOutcome(LastCompletedScore) /\ ~AgreeAt(Len(completed))) =>
          (aborted.timeout \/ LastPolled < TIMER_THRESHOLD \/ depth >= DEPTH_LIMIT)

\* Without convergence stopping, a second depth returned +inf or -inf after a
\* first one that did not, and get_move returned its move.
ForcedOutcomeStopWitness ==
    /\ iterative
    /\ ~quiessant_search
    /\ pc = "done"
    /\ Len(completed) >= 2
    /\ ForcedOutcome(LastCompletedScore)
    /\ move = LastCompletedMove
    /\ move # completed[1][3]


\* C5: with no timeout, alphabeta(state, d, -inf, +inf, maximizing=True)
\* returns the score minimax(state, d, maximizing=True) returns.
AlphabetaScoreEqualsMinimax ==
    (pc = "searched" /\ maximizing /\ bounds = <<NegInf, PosInf>>)
        => (~ab.timeout /\ ~mm.timeout /\ ab.score = mm.score)

\* The two were run on a tree where alphabeta cut siblings off: it entered
\* fewer nodes than minimax.
AlphabetaScoreEqualsMinimaxWitness ==
    /\ pc = "searched"
    /\ maximizing
    /\ bounds = <<NegInf, PosInf>>
    /\ depth >= 2
    /\ ab.polls < mm.polls
    /\ ab.score = mm.score
    /\ ab.score \in FiniteScores

\* What minimax returns for the i-th child of the board searched.
ChildScore(i) == minimax(game.kids[i], depth - 1, ~maximizing, 0).score
ChildScores == {ChildScore(i) : i \in 1..Len(game.kids)}
Greatest(S) == CHOOSE x \in S : \A y \in S : y =< x
Least(S) == CHOOSE x \in S : \A y \in S : x =< y
Internal == depth >= 1 /\ Len(game.kids) >= 1

\* C8: at an internal node minimax returns the greatest of its children's
\* scores at a maximizing ply and the least at a minimizing ply, with the first
\* move of the board's enumeration whose child has that score.
FirstBestChild ==
    (pc # "minimax" /\ Internal) =>
        /\ mm.score = (IF maximizing THEN Greatest(ChildScores) ELSE Least(ChildScores))
        /\ \E i \in 1..Len(game.kids) :
              /\ mm.move = get_legal_moves(game)[i]
              /\ ChildScore(i) = mm.score
              /\ \A j \in 1..(i - 1) : ChildScore(j) # mm.score

\* A later child ties with the best one, and the earlier move is returned.
FirstBestChildWitness ==
    /\ pc # "minimax"
    /\ Internal
    /\ depth >= 2
    /\ Len(game.kids) >= 3
    /\ mm.move = get_legal_moves(game)[2]
    /\ ChildScore(3) = mm.score
    /\ ChildScore(1) # mm.score

\* C9: on a board whose active player has no legal moves, minimax and alphabeta
\* return the evaluation for the agent with (-1, -1), at every depth, depth 0
\* included, after their one poll of the clock (they enter no other call).
DeadEnd ==
    Len(get_legal_moves(game)) = 0 =>
        /\ pc # "minimax" =>
              mm = Returned(score_fn(game, Agent), NO_MOVE, 1, {})
        /\ pc = "searched" =>
              ab = Returned(score_fn(game, Agent), NO_MOVE, 1, {})

\* A dead end searched at depth 0 with the opponent to move, where the
\* evaluation for the opponent differs from the one for the agent.
DeadEndWitness ==
    /\ pc = "searched"
    /\ Len(get_legal_moves(game)) = 0
    /\ depth = 0
    /\ game.active = Opponent
    /\ score_fn(game, Opponent) # score_fn(game, Agent)
    /\ mm.move = NO_MOVE
    /\ ab.move = NO_MOVE

Larger(x, y) == IF x > y THEN x ELSE y
Smaller(x, y) == IF x < y THEN x ELSE y

\* C10: alphabeta entered with alpha <= beta enters every recursive call with
\* alpha <= beta, and gives it the caller's bounds as tightened so far: alpha
\* is the greater of the caller's alpha and its best score so far at a
\* maximizing ply, beta the lesser of the caller's beta and its best score so
\* far at a minimizing ply.
BoundsInvariant ==
    pc = "searched" =>
        \A c \in ab.calls :
            /\ c.alpha =< c.beta
            /\ c.alpha = (IF c.caller_maximizing /\ c.caller_score # NoneScore
                          THEN Larger(c.caller_alpha, c.caller_score)
                          ELSE c.caller_alpha)
            /\ c.beta = (IF ~c.caller_maximizing /\ c.caller_score # NoneScore
                         THEN Smaller(c.caller_beta, c.caller_score)
                         ELSE c.caller_beta)

\* One call was given a floor raised over its caller's finite alpha, another
\* a ceiling lowered under its caller's beta.
BoundsInvariantWitness ==
    /\ pc = "searched"
    /\ \E c \in ab.calls : c.alpha > c.caller_alpha /\ c.caller_alpha > NegInf
    /\ \E c \in ab.calls : c.beta < c.caller_beta


\* C11: with no timeout, at every depth d >= 1, alphabeta(state, d, -inf, +inf,
\* maximizing=True) returns the very move minimax(state, d, maximizing=True)
\* returns, not merely one of equal score.
AlphabetaMoveEqualsMinimax ==
    (pc = "searched" /\ maximizing /\ bounds = <<NegInf, PosInf>> /\ depth >= 1)
        => (~ab.timeout /\ ~mm.timeout /\ ab.move = mm.move)

\* alphabeta cut a later child of the root short, so that the child returned a
\* score other than the one minimax gives it, and the two still return the
\* same legal move.
AlphabetaMoveEqualsMinimaxWitness ==
    /\ pc = "searched"
    /\ maximizing
    /\ bounds = <<NegInf, PosInf>>
    /\ depth >= 2
    /\ Len(game.kids) >= 2
    /\ ab.polls < mm.polls
    /\ ab.move = mm.move
    /\ ab.move = get_legal_moves(game)[1]
    /\ ChildScore(2) <
          alphabeta(game.kids[2], depth - 1, ChildScore(1), PosInf, FALSE, 0).score
    /\ alphabeta(game.kids[2], depth - 1, ChildScore(1), PosInf, FALSE, 0).score
          = ChildScore(1)

=============================================================================
